---- MODULE Spec2Model ----
(***************************************************************************)
(* Model of the reconciliation job of api/update-ratings.js: the module    *)
(* state (isUpdating, shouldStop, logStream), the HTTP handler's start,   *)
(* stop and logs branches, updateRatings with findAnimeId and              *)
(* getShikimoriData inlined at their await points, and the external        *)
(* collaborators (the MongoDB collection and the Shikimori API) as         *)
(* nondeterministic inputs.  The job of server.js, started by its cron     *)
(* schedule and its /update-ratings route, is modelled beside it (srv).    *)
(* Node runs one callback at a time, so every action is the code that runs *)
(* between two awaits on I/O or timers.                                    *)
(***************************************************************************)
EXTENDS Integers, Sequences, FiniteSets, TLC

\* ---------------------------------------------------------------- bounds
MaxRecords == 2      \* documents the collection can hold
MaxRejects == 1      \* rejected starts logged between two accepted starts

Keys == 1 .. MaxRecords

\* The start requests that can be in flight at once.  Two show every overlap
\* there is: a rejected call returns in the callback that made it, and a call
\* past its finally block only waits for client.close() and touches no
\* module state, so a third call in flight would add a second pending return
\* value and nothing else.
Req == {1, 2}

VARIABLES
  isUpdating,   \* let isUpdating
  shouldStop,   \* let shouldStop
  logStream,    \* const logStream
  store,        \* the anime_list collection: the keys of its documents
  run,          \* per start request: the locals of its updateRatings() call
  rejects,      \* rejected starts since the last accepted start (bounds logStream)
  stream,       \* the response of a GET ?action=logs request and its interval
  srv           \* server.js: per trigger, the locals of its updateRatings() call

vars == <<isUpdating, shouldStop, logStream, store, run, rejects, stream, srv>>

\* ---------------------------------------------------------------- values
NoStop == -2             \* stopAt: no stop request reached this run
BeforeLoop == -1         \* stopAt: the stop arrived before the loop began

NoTitle == ""
NoAnime == [Title |-> NoTitle, TitleEng |-> NoTitle, title |-> NoTitle]
Animes == [Title : {NoTitle, "Aa"}, TitleEng : {NoTitle, "Bb"}, title : {NoTitle, "aa"}]

ZeroStats == [total |-> 0, updated |-> 0, failed |-> 0, notFound |-> 0]
NoRet == [kind |-> "none"]
NoResp == [kind |-> "none", results |-> <<>>]

IdleRun ==
  [pc |-> "idle", animeList |-> <<>>, i |-> 0, stats |-> ZeroStats,
   anime |-> NoAnime, t |-> 0, animeId |-> 0, ret |-> NoRet,
   begun |-> 0, stopAt |-> NoStop, abort |-> "none", loopExit |-> "none",
   staleStop |-> FALSE, searched |-> <<>>, answers |-> <<>>, resp |-> NoResp,
   details |-> 0, calls |-> 0, lastCall |-> "none"]

\* the log stream: st is the state of the response, last the snapshot
\* written last, tick flips at every snapshot written, late tells that the
\* interval fired on the ended response
NoStream == [st |-> "none", last |-> <<>>, tick |-> 0, late |-> FALSE]

\* server.js: what starts updateRatings(), and the locals of one call
Jobs == {"cron", "manual"}
SrvIdle ==
  [pc |-> "idle", animeList |-> <<>>, i |-> 0, stats |-> ZeroStats,
   anime |-> NoAnime, t |-> 0, animeId |-> 0, ret |-> NoRet]

\* a call of server.js's updateRatings is inside its for loop
SrvInLoop == {"search", "titleDelay", "detail", "upsert", "delay"}

\* a run is between its `isUpdating = true` and its finally block
Active == {"connect", "find", "search", "titleDelay", "detail", "upsert", "delay"}
\* a run is working on record i
InRecord == {"search", "titleDelay", "detail", "upsert"}

\* String.prototype.toLowerCase on the strings of the model
ToLower(s) ==
  CASE s = "Aa" -> "aa"
    [] s = "AA" -> "aa"
    [] s = "aa" -> "aa"
    [] s = "Bb" -> "bb"
    [] s = "bb" -> "bb"
    [] s = "Cc" -> "cc"
    [] OTHER    -> s

\* search results; a null name or russian is the empty string after `|| ''`
ResultA == [id |-> 1, name |-> "AA", russian |-> ""]
ResultB == [id |-> 2, name |-> "Cc", russian |-> "bb"]
ResultC == [id |-> 3, name |-> "Cc", russian |-> ""]
Results == {ResultA, ResultB, ResultC}

SearchError  == [kind |-> "error", results |-> <<>>]
SearchNoData == [kind |-> "nodata", results |-> <<>>]
SearchOk(rs) == [kind |-> "ok", results |-> rs]

\* what axios.post can deliver for a search: a transport error, a body
\* without data.animes, or a (possibly empty) list of results
SearchResponses ==
  {SearchError, SearchNoData, SearchOk(<<>>)}
  \cup {SearchOk(<<a>>) : a \in Results}
  \cup {SearchOk(<<a, b>>) : a \in Results, b \in Results}

\* what axios.post can deliver for a detail query: a transport error, a
\* body without an anime, or an anime
DetailResponses == {"error", "none", "ok"}

\* the inputs of the job specification: documents with no title, one title
\* or two, and search responses that fail, carry no list, or carry one
\* result (an exact match of "Aa", a best guess for "Bb")
RunAnimes == {NoAnime, [NoAnime EXCEPT !.Title = "Aa"],
              [NoAnime EXCEPT !.Title = "Aa", !.TitleEng = "Bb"]}
RunSearch == {SearchError, SearchNoData, SearchOk(<<ResultA>>)}

\* one search response of each kind
WaitSearch == {SearchError, SearchNoData, SearchOk(<<>>), SearchOk(<<ResultA>>)}

\* the inputs of the concurrency specification
ConcAnimes == {[NoAnime EXCEPT !.Title = "Aa"]}
ConcSearch == {SearchError, SearchOk(<<ResultA>>)}
ConcDetail == {"none", "ok"}

\* collection.find({}).toArray(): the documents present, in key order
RECURSIVE Snapshot(_, _)
Snapshot(st, k) ==
  IF k > MaxRecords THEN <<>>
  ELSE (IF k \in st THEN <<k>> ELSE <<>>) \o Snapshot(st, k + 1)

\* ------------------------------------------------- context of one callback
\* The code of one callback reads and writes the module state and the
\* locals of one updateRatings() call; Ctx gathers them, Commit writes them.
Ctx(r) ==
  [isUpdating |-> isUpdating, shouldStop |-> shouldStop, log |-> logStream,
   store |-> store, me |-> run[r]]

Commit(r, c) ==
  /\ isUpdating' = c.isUpdating
  /\ shouldStop' = c.shouldStop
  /\ logStream' = c.log
  /\ store' = c.store
  /\ run' = [run EXCEPT ![r] = c.me]

\* a log that keeps its latest entry only
LogLatestOnly(c, level, message) ==
  [c EXCEPT !.log = <<[message |-> message, level |-> level]>>]

\* log(message, level)
Log(c, level, message) ==
  [c EXCEPT !.log = Append(@, [message |-> message, level |-> level])]

Sum(st) == st.updated + st.failed + st.notFound

\* ------------------------------------------------- updateRatings, the tail
\* finally { isUpdating = false; if (client) { log(...); await client.close() } }
Finally(c) ==
  Log([c EXCEPT !.isUpdating = FALSE, !.me.pc = "closing"],
      "info", "Closing MongoDB connection")

\* a catch block that rethrows past a finally that does not release the flag
CatchLeak(c, origin) ==
  Log(Log([c EXCEPT !.me.ret = [kind |-> "throw"], !.me.abort = origin,
                    !.me.pc = "closing"],
          "error", "Error in updateRatings"),
      "info", "Closing MongoDB connection")

\* catch (error) { log(...); throw error } followed by the finally block
Catch(c, origin) ==
  Finally(Log([c EXCEPT !.me.ret = [kind |-> "throw"], !.me.abort = origin],
              "error", "Error in updateRatings"))

\* a report whose stopped flag tells which loop condition ended the loop
ReportByExit(c) ==
  Finally(Log([c EXCEPT !.me.ret =
                 [kind |-> "report",
                  message |-> IF c.me.loopExit = "stopRequested"
                              THEN "Update stopped" ELSE "Update completed",
                  stats |-> c.me.stats,
                  stopped |-> (c.me.loopExit = "stopRequested")]],
              "info", "Update finished"))

\* const report = {message, stats, stopped: shouldStop}; log; return report
Report(c) ==
  Finally(Log([c EXCEPT !.me.ret =
                 [kind |-> "report",
                  message |-> IF c.shouldStop THEN "Update stopped"
                              ELSE "Update completed",
                  stats |-> c.me.stats,
                  stopped |-> c.shouldStop]],
              "info", "Update finished"))

\* a loop condition that ignores the stop flag
LoopCondNoStop(c) == c.me.i < Len(c.me.animeList)

\* i < animeList.length && !shouldStop
LoopCond(c) == c.me.i < Len(c.me.animeList) /\ ~c.shouldStop

\* the loop condition is false: `&&` tests the index first, the flag second
ExitLoop(c) ==
  Report([c EXCEPT !.me.loopExit =
            IF c.me.i < Len(c.me.animeList) THEN "stopRequested" ELSE "exhausted"])

\* a loop tail that waits after the last record too
AfterRecordAlwaysWaits(c) ==
  IF c.me.i < Len(c.me.animeList)
  THEN [c EXCEPT !.me.pc = "delay", !.me.lastCall = "none"]
  ELSE ExitLoop([c EXCEPT !.me.i = @ + 1])

\* if (i < animeList.length - 1) await delay(1000); after the last record
\* i++ makes i = animeList.length and the loop condition fails on the index
AfterRecord(c) ==
  IF c.me.i < Len(c.me.animeList) - 1
  THEN [c EXCEPT !.me.pc = "delay", !.me.lastCall = "none"]
  ELSE ExitLoop([c EXCEPT !.me.i = @ + 1])

Bump(st, field) == [st EXCEPT ![field] = @ + 1]

\* stats.notFound++; log(...)
NotFound(c) ==
  AfterRecord(Log([c EXCEPT !.me.stats = Bump(@, "notFound")],
                  "warn", "Anime not found on Shikimori"))

\* an else branch that logs the failure without counting it
FailedNoCount(c) ==
  AfterRecord(Log(c, "error", "Failed to get data"))

\* stats.failed++; log(...)
Failed(c) ==
  AfterRecord(Log([c EXCEPT !.me.stats = Bump(@, "failed")],
                  "error", "Failed to get data"))

\* stats.updated++; log(...)
Updated(c) ==
  AfterRecord(Log([c EXCEPT !.me.stats = Bump(@, "updated")],
                  "info", "Updated"))

\* ------------------------------------------------------------ findAnimeId
\* a candidate list that falls back to a placeholder title
SearchTitlesPlaceholder(anime) ==
  LET ts == (IF anime.Title # NoTitle THEN <<anime.Title>> ELSE <<>>)
            \o (IF anime.TitleEng # NoTitle THEN <<anime.TitleEng>> ELSE <<>>)
            \o (IF anime.title # NoTitle THEN <<anime.title>> ELSE <<>>)
  IN IF ts = <<>> THEN <<"Cc">> ELSE ts

\* searchTitles: Title, TitleEng, title, each pushed when truthy
SearchTitles(anime) ==
  (IF anime.Title # NoTitle THEN <<anime.Title>> ELSE <<>>)
  \o (IF anime.TitleEng # NoTitle THEN <<anime.TitleEng>> ELSE <<>>)
  \o (IF anime.title # NoTitle THEN <<anime.title>> ELSE <<>>)

\* log(`Searching ...`); await axios.post(...)
\* (searched lists the titles searched for the record, calls counts the
\* requests the run has sent to the API, lastCall is the last of them when
\* no delay has passed since)
Search(c) ==
  Log([c EXCEPT !.me.pc = "search",
                !.me.searched = Append(@, SearchTitles(c.me.anime)[c.me.t]),
                !.me.calls = @ + 1, !.me.lastCall = "search"],
      "info", "Searching Shikimori")

\* a title loop that ends after its first title
NextTitleGiveUp(c) == NotFound(c)

\* the for..of loop moves to the next title, or falls out to `return null`,
\* which updateRatings counts as notFound
NextTitle(c) ==
  IF c.me.t < Len(SearchTitles(c.me.anime))
  THEN Search([c EXCEPT !.me.t = @ + 1])
  ELSE NotFound(c)

\* findAnimeId up to its first await
FindAnimeId(c) ==
  IF SearchTitles(c.me.anime) = <<>>
  THEN NotFound(Log(c, "warn", "No title found for anime"))
  ELSE Search([c EXCEPT !.me.t = 1])

\* const anime = animeList[i]; const animeId = await findAnimeId(anime)
\* (begun counts the records the loop body was entered for)
BeginRecord(c, anime) ==
  FindAnimeId([c EXCEPT !.me.anime = anime, !.me.t = 0, !.me.animeId = 0,
                        !.me.begun = @ + 1, !.me.searched = <<>>,
                        !.me.answers = <<>>, !.me.resp = NoResp,
                        !.me.details = 0])

\* the head of the for loop, i already set
Iterate(c, anime) ==
  IF LoopCond(c) THEN BeginRecord(c, anime) ELSE ExitLoop(c)

\* getShikimoriData up to its await
\* (details counts the detail queries sent for the record)
GetShikimoriData(c) ==
  Log([c EXCEPT !.me.pc = "detail", !.me.details = @ + 1,
                !.me.calls = @ + 1, !.me.lastCall = "detail"],
      "info", "Fetching details")

\* resultRussian === searchTitleLower || resultName === searchTitleLower
Matches(result, title) ==
  \/ ToLower(result.russian) = ToLower(title)
  \/ ToLower(result.name) = ToLower(title)

\* a scan that takes the head of the list whatever matches
FirstResult(results, title) == results[1]

\* the first result of the list that matches, the list having one
FirstMatch(results, title) ==
  LET k == CHOOSE k \in 1 .. Len(results) :
             /\ Matches(results[k], title)
             /\ \A j \in 1 .. (k - 1) : ~Matches(results[j], title)
  IN results[k]

\* the kind of answer a search response is for a title
AnswerKind(resp, title) ==
  CASE resp.kind = "error" -> "error"
    [] resp.kind = "nodata" -> "nodata"
    [] resp.results = <<>> -> "empty"
    [] \E k \in 1 .. Len(resp.results) : Matches(resp.results[k], title) -> "exact"
    [] OTHER -> "guess"

\* a matcher that gives the record up at the first empty list
OnSearchEmptyEnds(c, resp) ==
  LET title == SearchTitles(c.me.anime)[c.me.t]
      got == [c EXCEPT !.me.answers = Append(@, AnswerKind(resp, title)),
                       !.me.resp = resp]
      failed == [got EXCEPT !.me.pc = "titleDelay", !.me.lastCall = "none"]
      found == Log(got, "info", "Found results")
  IN CASE resp.kind = "error" ->
            Log(failed, "error", "Shikimori search error")
       [] resp.kind = "nodata" ->
            NextTitle(Log(got, "warn", "No results from Shikimori API"))
       [] resp.kind = "ok" /\ resp.results = <<>> ->
            NotFound(found)
       [] resp.kind = "ok" /\ resp.results # <<>>
            /\ (\E k \in 1 .. Len(resp.results) : Matches(resp.results[k], title)) ->
            GetShikimoriData(
              Log([found EXCEPT !.me.animeId = FirstMatch(resp.results, title).id],
                  "info", "Exact match found"))
       [] OTHER ->
            GetShikimoriData(
              Log([found EXCEPT !.me.animeId = resp.results[1].id],
                  "info", "No exact match, using best guess"))

\* a matcher that keeps a best guess only when no title is left to try
OnSearchExactFirst(c, resp) ==
  LET title == SearchTitles(c.me.anime)[c.me.t]
      got == [c EXCEPT !.me.answers = Append(@, AnswerKind(resp, title)),
                       !.me.resp = resp]
      failed == [got EXCEPT !.me.pc = "titleDelay", !.me.lastCall = "none"]
      found == Log(got, "info", "Found results")
  IN CASE resp.kind = "error" ->
            Log(failed, "error", "Shikimori search error")
       [] resp.kind = "nodata" ->
            NextTitle(Log(got, "warn", "No results from Shikimori API"))
       [] resp.kind = "ok" /\ resp.results = <<>> ->
            Log([found EXCEPT !.me.pc = "titleDelay", !.me.lastCall = "none"],
                "error", "Shikimori search error")
       [] resp.kind = "ok" /\ resp.results # <<>>
            /\ (\E k \in 1 .. Len(resp.results) : Matches(resp.results[k], title)) ->
            GetShikimoriData(
              Log([found EXCEPT !.me.animeId = FirstMatch(resp.results, title).id],
                  "info", "Exact match found"))
       [] resp.kind = "ok" /\ c.me.t < Len(SearchTitles(c.me.anime)) ->
            NextTitle(found)
       [] OTHER ->
            GetShikimoriData(
              Log([found EXCEPT !.me.animeId = resp.results[1].id],
                  "info", "No exact match, using best guess"))

\* findAnimeId after the await of axios.post, for the title at position t
\* (answers lists the kinds of the answers received for the record, resp is
\* the last response)
OnSearch(c, resp) ==
  LET title == SearchTitles(c.me.anime)[c.me.t]
      got == [c EXCEPT !.me.answers = Append(@, AnswerKind(resp, title)),
                       !.me.resp = resp]
      failed == [got EXCEPT !.me.pc = "titleDelay", !.me.lastCall = "none"]
      found == Log(got, "info", "Found results")
  IN CASE resp.kind = "error" ->
            Log(failed, "error", "Shikimori search error")
       [] resp.kind = "nodata" ->
            \* `continue` skips the delay below the try block
            NextTitle(Log(got, "warn", "No results from Shikimori API"))
       [] resp.kind = "ok" /\ resp.results = <<>> ->
            \* results[0].russian throws a TypeError inside the try block
            Log([found EXCEPT !.me.pc = "titleDelay", !.me.lastCall = "none"],
                "error", "Shikimori search error")
       [] resp.kind = "ok" /\ resp.results # <<>>
            /\ (\E k \in 1 .. Len(resp.results) : Matches(resp.results[k], title)) ->
            GetShikimoriData(
              Log([found EXCEPT !.me.animeId = FirstMatch(resp.results, title).id],
                  "info", "Exact match found"))
       [] OTHER ->
            GetShikimoriData(
              Log([found EXCEPT !.me.animeId = resp.results[1].id],
                  "info", "No exact match, using best guess"))

\* a fetcher that asks a second time after an error
OnDetailRetry(c, resp) ==
  CASE resp = "error" /\ c.me.details < 2 ->
         GetShikimoriData(Log(c, "error", "Shikimori API error"))
    [] resp = "error" ->
         Failed(Log(c, "error", "Shikimori API error"))
    [] resp = "none" ->
         Failed(Log(Log(c, "info", "Raw response from Shikimori"),
                    "warn", "No anime data returned"))
    [] OTHER ->
         Log(Log(Log([c EXCEPT !.me.pc = "upsert"],
                     "info", "Raw response from Shikimori"),
                 "info", "Successfully fetched data"),
             "info", "Updating database for anime")

\* getShikimoriData after its await, and the branch of updateRatings on it
OnDetail(c, resp) ==
  CASE resp = "error" ->
         Failed(Log(c, "error", "Shikimori API error"))
    [] resp = "none" ->
         Failed(Log(Log(c, "info", "Raw response from Shikimori"),
                    "warn", "No anime data returned"))
    [] OTHER ->
         Log(Log(Log([c EXCEPT !.me.pc = "upsert"],
                     "info", "Raw response from Shikimori"),
                 "info", "Successfully fetched data"),
             "info", "Updating database for anime")

\* collection.updateOne({_id: anime._id}, {$set: ...}) has settled.  A
\* resolved call has set fields of the document when the key is still there
\* and has done nothing when it is not (no upsert option): either way the
\* keys of the collection are the same and the call does not throw.  A
\* rejected call lands in the catch block.
OnUpsert(c, ok) ==
  IF ok THEN Updated(c) ELSE Catch(c, "upsert")

\* ------------------------------------------------- updateRatings, the head
\* a guard that never sees a run in progress
NeverRunning(c) == FALSE

\* if (isUpdating)
AlreadyRunning(c) == c.isUpdating

\* a rejection that resets the job state before answering
RejectedReset(c) ==
  Log([c EXCEPT !.log = <<>>, !.shouldStop = FALSE,
                !.me.ret = [kind |-> "error", error |-> "Update already in progress"],
                !.me.pc = "respond"],
      "warn", "Update already in progress")

\* log('Update already in progress', 'warn'); return {error: ...}
Rejected(c) ==
  Log([c EXCEPT !.me.ret = [kind |-> "error", error |-> "Update already in progress"],
                !.me.pc = "respond"],
      "warn", "Update already in progress")

\* a start that leaves the stop flag as it finds it
AcceptedKeepStop(c) ==
  Log([c EXCEPT !.isUpdating = TRUE, !.log = <<>>,
                !.me.pc = "connect", !.me.staleStop = c.shouldStop],
      "info", "Connecting to MongoDB")

\* isUpdating = true; shouldStop = false; logStream.length = 0;
\* log('Connecting to MongoDB'); await client.connect()
\* (the SHIKIMORI_TOKEN warning is logged before the reset and is wiped by it)
\* (staleStop remembers the stop flag the call found)
Accepted(c) ==
  Log([c EXCEPT !.isUpdating = TRUE, !.shouldStop = FALSE, !.log = <<>>,
                !.me.pc = "connect", !.me.staleStop = c.shouldStop],
      "info", "Connecting to MongoDB")

\* client.connect() has settled
OnConnected(c, ok) ==
  IF ok
  THEN Log([c EXCEPT !.me.pc = "find"], "info", "Fetching anime list from database")
  ELSE Catch(c, "connect")

\* stats that count one record too few
InitStatsShort(n) == [total |-> n - 1, updated |-> 0, failed |-> 0, notFound |-> 0]

\* const stats = {total: animeList.length, updated: 0, failed: 0, notFound: 0}
InitStats(n) == [total |-> n, updated |-> 0, failed |-> 0, notFound |-> 0]

\* collection.find({}).toArray() has settled; anime is the document the
\* loop reads first (its fields are read at `const anime = animeList[i]`)
OnFound(c, ok, anime) ==
  IF ~ok THEN Catch(c, "find")
  ELSE LET list == Snapshot(c.store, 1)
           got == [c EXCEPT !.me.animeList = list]
       IN IF Len(list) = 0
          THEN Finally(Log([got EXCEPT !.me.ret =
                              [kind |-> "error", error |-> "No anime found in database"]],
                           "error", "No anime found in database!"))
          ELSE Iterate(Log([got EXCEPT !.me.stats = InitStats(Len(list)), !.me.i = 0],
                           "info", "Found anime titles in database"),
                       anime)

\* ---------------------------------------------- handler, action=logs
\* a sendLogs that writes and never ends the response
SendLogsNoEnd(s, log, running) ==
  IF s.st = "open"
  THEN [s EXCEPT !.last = log, !.tick = 1 - @]
  ELSE [s EXCEPT !.late = TRUE]

\* sendLogs: res.write(JSON.stringify(logStream)); if (!isUpdating) res.end()
\* res.end() does not clear the interval: when it fires again before the
\* request has closed, res.write finds the response ended and writes nothing
SendLogs(s, log, running) ==
  IF s.st = "open"
  THEN [s EXCEPT !.last = log, !.tick = 1 - @,
                 !.st = IF running THEN "open" ELSE "ended"]
  ELSE [s EXCEPT !.late = TRUE]

\* ------------------------------------------------ server.js, updateRatings
\* fastify.log.info(report); return stats
SrvReturn(j) == [j EXCEPT !.pc = "done", !.ret = [kind |-> "stats", stats |-> j.stats]]

\* catch (error) { fastify.log.error(...); return {error: error.message} }
SrvCatch(j) == [j EXCEPT !.pc = "done", !.ret = [kind |-> "error"]]

\* if (i < animeList.length - 1) await delay(1000); i++; i < animeList.length
SrvAfterRecord(j) ==
  IF j.i < Len(j.animeList) - 1
  THEN [j EXCEPT !.pc = "delay"]
  ELSE SrvReturn([j EXCEPT !.i = @ + 1])

\* stats.updated++, stats.failed++ or stats.notFound++
SrvCount(j, field) == SrvAfterRecord([j EXCEPT !.stats = Bump(@, field)])

\* findAnimeId: await axios.post(...) for the title at position t
SrvSearch(j) == [j EXCEPT !.pc = "search"]

\* findAnimeId: the next title, or return null
SrvNextTitle(j) ==
  IF j.t < Len(SearchTitles(j.anime))
  THEN SrvSearch([j EXCEPT !.t = @ + 1])
  ELSE SrvCount(j, "notFound")

\* findAnimeId up to its first await
SrvFindAnimeId(j) ==
  IF SearchTitles(j.anime) = <<>>
  THEN SrvCount(j, "notFound")
  ELSE SrvSearch([j EXCEPT !.t = 1])

\* the head of the for loop: i < animeList.length, no other condition
SrvIterate(j, anime) ==
  IF j.i < Len(j.animeList)
  THEN SrvFindAnimeId([j EXCEPT !.anime = anime, !.t = 0, !.animeId = 0])
  ELSE SrvReturn(j)

\* collection.find({}).toArray() has settled; stats.total = animeList.length
SrvOnFound(j, st, ok, anime) ==
  IF ~ok THEN SrvCatch(j)
  ELSE LET list == Snapshot(st, 1)
       IN SrvIterate([j EXCEPT !.animeList = list, !.i = 0,
                               !.stats = InitStats(Len(list))],
                     anime)

\* findAnimeId after the await of axios.post: a non-empty list decides,
\* anything else is logged and followed by delay(500)
SrvOnSearch(j, resp) ==
  LET title == SearchTitles(j.anime)[j.t]
  IN IF resp.kind = "ok" /\ resp.results # <<>>
     THEN [j EXCEPT !.pc = "detail",
                    !.animeId =
                      IF \E k \in 1 .. Len(resp.results) :
                           Matches(resp.results[k], title)
                      THEN FirstMatch(resp.results, title).id
                      ELSE resp.results[1].id]
     ELSE [j EXCEPT !.pc = "titleDelay"]

\* getShikimoriData has returned
SrvOnDetail(j, resp) ==
  IF resp = "ok" THEN [j EXCEPT !.pc = "upsert"] ELSE SrvCount(j, "failed")

\* collection.updateOne has settled
SrvOnUpsert(j, ok) ==
  IF ok THEN SrvCount(j, "updated") ELSE SrvCatch(j)

\* ---------------------------------------------------------------- actions
Init ==
  /\ isUpdating = FALSE
  /\ shouldStop = FALSE
  /\ logStream = <<>>
  /\ store \in SUBSET Keys
  /\ run = [r \in Req |-> IdleRun]
  /\ rejects = 0
  /\ stream = NoStream
  /\ srv = [s \in Jobs |-> SrvIdle]

\* GET /api/update-ratings: the handler calls updateRatings(); a rejected
\* call returns at once and the handler answers in the same callback
Start(r) ==
  /\ run[r].pc = "idle"
  /\ IF AlreadyRunning(Ctx(r))
     THEN /\ rejects < MaxRejects
          /\ rejects' = rejects + 1
          /\ Commit(r, Rejected(Ctx(r)))
     ELSE /\ rejects' = 0
          /\ Commit(r, Accepted(Ctx(r)))
  /\ UNCHANGED <<stream, srv>>

Connected(r) ==
  /\ run[r].pc = "connect"
  /\ \E ok \in BOOLEAN : Commit(r, OnConnected(Ctx(r), ok))
  /\ UNCHANGED <<rejects, stream, srv>>

Found(r, animes) ==
  /\ run[r].pc = "find"
  /\ \E ok \in BOOLEAN, anime \in animes : Commit(r, OnFound(Ctx(r), ok, anime))
  /\ UNCHANGED <<rejects, stream, srv>>

SearchReturn(r, responses) ==
  /\ run[r].pc = "search"
  /\ \E resp \in responses : Commit(r, OnSearch(Ctx(r), resp))
  /\ UNCHANGED <<rejects, stream, srv>>

\* await delay(500) at the foot of the title loop is over
TitleDelayDone(r) ==
  /\ run[r].pc = "titleDelay"
  /\ Commit(r, NextTitle(Ctx(r)))
  /\ UNCHANGED <<rejects, stream, srv>>

DetailReturn(r, responses) ==
  /\ run[r].pc = "detail"
  /\ \E resp \in responses : Commit(r, OnDetail(Ctx(r), resp))
  /\ UNCHANGED <<rejects, stream, srv>>

UpsertReturn(r) ==
  /\ run[r].pc = "upsert"
  /\ \E ok \in BOOLEAN : Commit(r, OnUpsert(Ctx(r), ok))
  /\ UNCHANGED <<rejects, stream, srv>>

\* await delay(1000) is over: i++, then the loop condition
DelayDone(r, animes) ==
  /\ run[r].pc = "delay"
  /\ \E anime \in animes :
       Commit(r, Iterate([Ctx(r) EXCEPT !.me.i = @ + 1], anime))
  /\ UNCHANGED <<rejects, stream, srv>>

\* await client.close() has settled; a rejection replaces the pending
\* return value or error of updateRatings
Closed(r) ==
  /\ run[r].pc = "closing"
  /\ \E ok \in BOOLEAN :
       run' = [run EXCEPT ![r].pc = "respond",
                          ![r].ret = IF ok THEN @ ELSE [kind |-> "throw"],
                          ![r].abort = IF ok \/ @ # "none" THEN @ ELSE "close"]
  /\ UNCHANGED <<isUpdating, shouldStop, logStream, store, rejects, stream, srv>>

\* res.status(200).json(result) or res.status(500).json({error})
Respond(r) ==
  /\ run[r].pc = "respond"
  /\ run' = [run EXCEPT ![r] = IdleRun]
  /\ UNCHANGED <<isUpdating, shouldStop, logStream, store, rejects, stream, srv>>

\* GET ?action=stop: shouldStop = true.  stopAt remembers, for a run in
\* progress, the record it was working on when the first stop arrived.
Stop ==
  /\ shouldStop' = TRUE
  /\ run' = [q \in Req |->
               IF run[q].pc \in Active /\ run[q].stopAt = NoStop
               THEN [run[q] EXCEPT !.stopAt =
                       IF run[q].pc \in {"connect", "find"} THEN BeforeLoop
                       ELSE run[q].i]
               ELSE run[q]]
  /\ UNCHANGED <<isUpdating, logStream, store, rejects, stream, srv>>

\* another client of the database deletes a document
DeleteRecord(k) ==
  /\ k \in store
  /\ store' = store \ {k}
  /\ UNCHANGED <<isUpdating, shouldStop, logStream, run, rejects, stream, srv>>

\* One start request at a time, stop requests, and deletions that race
\* with the run.
Next ==
  \/ Start(1)
  \/ Connected(1)
  \/ Found(1, RunAnimes)
  \/ SearchReturn(1, RunSearch)
  \/ TitleDelayDone(1)
  \/ DetailReturn(1, DetailResponses)
  \/ UpsertReturn(1)
  \/ DelayDone(1, RunAnimes)
  \/ Closed(1)
  \/ Respond(1)
  \/ Stop
  \/ \E k \in Keys : DeleteRecord(k)

Spec == Init /\ [][Next]_vars

\* Several start requests in flight, and stop requests.
NextConc ==
  \/ \E r \in Req : Start(r)
  \/ \E r \in Req : Connected(r)
  \/ \E r \in Req : Found(r, ConcAnimes)
  \/ \E r \in Req : SearchReturn(r, ConcSearch)
  \/ \E r \in Req : TitleDelayDone(r)
  \/ \E r \in Req : DetailReturn(r, ConcDetail)
  \/ \E r \in Req : UpsertReturn(r)
  \/ \E r \in Req : DelayDone(r, ConcAnimes)
  \/ \E r \in Req : Closed(r)
  \/ \E r \in Req : Respond(r)
  \/ Stop

SpecConc == Init /\ [][NextConc]_vars

\* GET ?action=logs: headers set, setInterval(sendLogs, 1000)
LogsRequest ==
  /\ stream.st \in {"none", "closed"}
  /\ stream' = [NoStream EXCEPT !.st = "open"]
  /\ UNCHANGED <<isUpdating, shouldStop, logStream, store, run, rejects, srv>>

\* the interval fires
LogsTick ==
  /\ stream.st \in {"open", "ended"}
  /\ stream' = SendLogs(stream, logStream, isUpdating)
  /\ UNCHANGED <<isUpdating, shouldStop, logStream, store, run, rejects, srv>>

\* req.on('close'): clearInterval(interval); res.end()
LogsClose ==
  /\ stream.st \in {"open", "ended"}
  /\ stream' = [stream EXCEPT !.st = "closed"]
  /\ UNCHANGED <<isUpdating, shouldStop, logStream, store, run, rejects, srv>>

\* One start request at a time, stop requests, and a client of the log
\* stream.
NextLogs ==
  \/ Start(1)
  \/ Connected(1)
  \/ Found(1, ConcAnimes)
  \/ SearchReturn(1, ConcSearch)
  \/ TitleDelayDone(1)
  \/ DetailReturn(1, ConcDetail)
  \/ UpsertReturn(1)
  \/ DelayDone(1, ConcAnimes)
  \/ Closed(1)
  \/ Respond(1)
  \/ Stop
  \/ LogsRequest
  \/ LogsTick
  \/ LogsClose

SpecLogs == Init /\ [][NextLogs]_vars

\* server.js: the cron callback or the /update-ratings route calls
\* updateRatings(), which runs to collection.find({}).toArray()
SrvTrigger(s) ==
  /\ srv[s].pc = "idle"
  /\ srv' = [srv EXCEPT ![s] = [SrvIdle EXCEPT !.pc = "find"]]
  /\ UNCHANGED <<isUpdating, shouldStop, logStream, store, run, rejects, stream>>

SrvStep(s, j) ==
  /\ srv' = [srv EXCEPT ![s] = j]
  /\ UNCHANGED <<isUpdating, shouldStop, logStream, store, run, rejects, stream>>

SrvFound(s, animes) ==
  /\ srv[s].pc = "find"
  /\ \E ok \in BOOLEAN, anime \in animes :
       SrvStep(s, SrvOnFound(srv[s], store, ok, anime))

SrvSearchReturn(s, responses) ==
  /\ srv[s].pc = "search"
  /\ \E resp \in responses : SrvStep(s, SrvOnSearch(srv[s], resp))

SrvTitleDelayDone(s) ==
  /\ srv[s].pc = "titleDelay"
  /\ SrvStep(s, SrvNextTitle(srv[s]))

SrvDetailReturn(s, responses) ==
  /\ srv[s].pc = "detail"
  /\ \E resp \in responses : SrvStep(s, SrvOnDetail(srv[s], resp))

SrvUpsertReturn(s) ==
  /\ srv[s].pc = "upsert"
  /\ \E ok \in BOOLEAN : SrvStep(s, SrvOnUpsert(srv[s], ok))

\* await delay(1000) is over: i++, then the loop condition
SrvDelayDone(s, animes) ==
  /\ srv[s].pc = "delay"
  /\ \E anime \in animes :
       SrvStep(s, SrvIterate([srv[s] EXCEPT !.i = @ + 1], anime))

\* the promise of updateRatings() has resolved and its caller has logged
SrvDone(s) ==
  /\ srv[s].pc = "done"
  /\ SrvStep(s, SrvIdle)

\* server.js: the schedule and the route, each starting the job
NextServer ==
  \/ \E s \in Jobs : SrvTrigger(s)
  \/ \E s \in Jobs : SrvFound(s, RunAnimes)
  \/ \E s \in Jobs : SrvSearchReturn(s, WaitSearch)
  \/ \E s \in Jobs : SrvTitleDelayDone(s)
  \/ \E s \in Jobs : SrvDetailReturn(s, DetailResponses)
  \/ \E s \in Jobs : SrvUpsertReturn(s)
  \/ \E s \in Jobs : SrvDelayDone(s, RunAnimes)
  \/ \E s \in Jobs : SrvDone(s)

SpecServer == Init /\ [][NextServer]_vars

\* The matcher on one document: every title shape, every search response.
\* The collection holds one document, so the run never waits between records.
InitMatch == Init /\ store = {1}

NextMatch ==
  \/ Start(1)
  \/ Connected(1)
  \/ Found(1, Animes)
  \/ SearchReturn(1, SearchResponses)
  \/ TitleDelayDone(1)
  \/ DetailReturn(1, DetailResponses)
  \/ UpsertReturn(1)
  \/ Closed(1)
  \/ Respond(1)

SpecMatch == InitMatch /\ [][NextMatch]_vars

\* The pacing of one run: every kind of search response, no stop request.
NextWait ==
  \/ Start(1)
  \/ Connected(1)
  \/ Found(1, RunAnimes)
  \/ SearchReturn(1, WaitSearch)
  \/ TitleDelayDone(1)
  \/ DetailReturn(1, ConcDetail)
  \/ UpsertReturn(1)
  \/ DelayDone(1, RunAnimes)
  \/ Closed(1)
  \/ Respond(1)

SpecWait == Init /\ [][NextWait]_vars

\* ------------------------------------------------------------- properties
IsPrefix(s, t) == Len(s) <= Len(t) /\ SubSeq(t, 1, Len(s)) = s

HasNoTitles(a) == a.Title = NoTitle /\ a.TitleEng = NoTitle /\ a.title = NoTitle

ActiveRuns == {r \in Req : run[r].pc \in Active}

RejectedRet == [kind |-> "error", error |-> "Update already in progress"]

\* the handler call of request r starts in this step and finds a run in progress
StartsWhileRunning(r) ==
  run[r].pc = "idle" /\ run'[r].pc # "idle" /\ isUpdating

\* C1: at most one reconciliation loop is active at any time; a call becomes
\* an active run only at a start that finds no run in progress, and a start
\* that finds one is answered with the rejection at once and never becomes
\* a run (it is not queued).
C1_AtMostOneLoop ==
  [][/\ Cardinality(ActiveRuns') <= 1
     /\ \A r \in Req :
          /\ (run[r].pc \notin Active /\ run'[r].pc \in Active)
               => (run[r].pc = "idle" /\ ~isUpdating)
          /\ StartsWhileRunning(r)
               => (run'[r].pc = "respond" /\ run'[r].ret = RejectedRet)]_vars

\* a start has been rejected while another call's run is active
C1_Witness ==
  \E r, q \in Req :
    /\ run[r].pc = "respond" /\ run[r].ret = RejectedRet
    /\ run[q].pc \in InRecord

\* C2: a start made while a run is active returns the AlreadyRunning result
\* and resets nothing: the log entries present before it are all still
\* there in the same order, the run's locals (its stats among them) are
\* unchanged, the flag stays set and a requested stop is not cleared.
C2_RejectedStartKeepsRun ==
  [][\A r \in Req :
       StartsWhileRunning(r)
         => /\ run'[r].ret = RejectedRet
            /\ IsPrefix(logStream, logStream')
            /\ shouldStop' = shouldStop
            /\ isUpdating'
            /\ \A q \in Req \ {r} : run'[q] = run[q]]_vars

\* a start has been rejected while a stop was pending and the run had
\* already counted a record
C2_Witness ==
  \E r, q \in Req :
    /\ run[r].pc = "respond" /\ run[r].ret = RejectedRet
    /\ run[q].pc \in Active /\ run[q].stats.updated > 0
    /\ shouldStop /\ Len(logStream) > 3

\* C3: once a stop request has arrived while record stopAt was being
\* processed, the loop body is entered for no record after it, a report the
\* run returns has stopped = true, and the counted outcomes never exceed
\* the total.
C3_StopEndsRun ==
  \A r \in Req :
    run[r].stopAt >= 0
      => /\ run[r].begun <= run[r].stopAt + 1
         /\ (run[r].pc \in InRecord \cup {"delay"} => run[r].i <= run[r].stopAt)
         /\ Sum(run[r].stats) <= run[r].stats.total
         /\ (run[r].ret.kind = "report"
               => /\ run[r].ret.stopped
                  /\ Sum(run[r].ret.stats) <= run[r].ret.stats.total)

\* a run was stopped during a record that was not the last one and has
\* reported, leaving a record unprocessed
C3_Witness ==
  \E r \in Req :
    /\ run[r].ret.kind = "report" /\ run[r].ret.stopped
    /\ run[r].stopAt >= 0
    /\ run[r].stopAt + 1 < run[r].ret.stats.total
    /\ run[r].begun = run[r].stopAt + 1

\* C4 as claimed: a report has stopped = true exactly when the loop ended on
\* the stop flag and not on the index.
C4_StoppedIffStopExit ==
  \A r \in Req :
    run[r].ret.kind = "report"
      => (run[r].ret.stopped <=> run[r].loopExit = "stopRequested")

\* C4 amended: a report has stopped = true exactly when a stop request
\* arrived during the run (between its accepted start and the end of its
\* loop).  A loop that ended on the stop flag reports stopped = true, and
\* a report with stopped = false comes from a loop that went through all
\* records; a loop that went through all records reports stopped = true
\* when the stop arrived during the last one.
C4_StoppedIffStopSeen ==
  \A r \in Req :
    run[r].ret.kind = "report"
      => /\ run[r].ret.stopped <=> run[r].stopAt # NoStop
         /\ run[r].loopExit = "stopRequested" => run[r].ret.stopped
         /\ ~run[r].ret.stopped
              => /\ run[r].loopExit = "exhausted"
                 /\ Sum(run[r].ret.stats) = run[r].ret.stats.total

\* every record was processed, the stop arrived during the last one, and
\* the report says stopped
C4_Witness ==
  \E r \in Req :
    /\ run[r].ret.kind = "report" /\ run[r].ret.stopped
    /\ run[r].loopExit = "exhausted"
    /\ run[r].stopAt = run[r].ret.stats.total - 1
    /\ Sum(run[r].ret.stats) = run[r].ret.stats.total

\* C5: a report with stopped = false counts every enumerated record in
\* exactly one of updated, failed, notFound.
C5_CompleteRunCountsAll ==
  \A r \in Req :
    (run[r].ret.kind = "report" /\ ~run[r].ret.stopped)
      => /\ Sum(run[r].ret.stats) = run[r].ret.stats.total
         /\ run[r].ret.stats.total = Len(run[r].animeList)
         /\ run[r].begun = Len(run[r].animeList)

\* a run over two records completed with one updated and one failed
C5_Witness ==
  \E r \in Req :
    /\ run[r].ret.kind = "report" /\ ~run[r].ret.stopped
    /\ run[r].ret.stats.total = 2
    /\ run[r].ret.stats.updated = 1
    /\ run[r].ret.stats.failed = 1

\* C6 as claimed: every run whose enumeration succeeded, an empty one
\* included, returns a report whose total is the number of records
\* enumerated (runs that raised an exception left aside).
C6_EveryEnumerationReports ==
  \A r \in Req :
    (run[r].pc = "closing" /\ run[r].abort = "none")
      => /\ run[r].ret.kind = "report"
         /\ run[r].ret.stats.total = Len(run[r].animeList)

\* C6 amended: from the enumeration of a non-empty snapshot on, stats.total
\* is the number of records enumerated, in every later state of the run and
\* in the report it returns, whatever happens to the collection meanwhile;
\* a run that enumerates an empty collection returns no report but the
\* error result "No anime found in database".
C6_TotalFixedAtEnumeration ==
  \A r \in Req :
    /\ run[r].pc \in InRecord \cup {"delay"}
         => /\ Len(run[r].animeList) > 0
            /\ run[r].stats.total = Len(run[r].animeList)
    /\ run[r].ret.kind = "report"
         => /\ Len(run[r].animeList) > 0
            /\ run[r].ret.stats.total = Len(run[r].animeList)
    /\ (run[r].pc = "closing" /\ run[r].abort = "none"
          /\ Len(run[r].animeList) = 0)
         => run[r].ret = [kind |-> "error", error |-> "No anime found in database"]

\* a report over two records while the collection has lost one of them
C6_Witness ==
  \E r \in Req :
    /\ run[r].ret.kind = "report"
    /\ run[r].ret.stats.total = 2
    /\ Cardinality(store) < 2

\* C7: isUpdating is true exactly while some call is between its accepted
\* start and its finally block; every way out of that stretch (report,
\* empty collection, connect or find failure, exception in the loop body)
\* leaves it false.
C7_FlagReleased ==
  /\ isUpdating <=> ActiveRuns # {}
  /\ \A r \in Req : run[r].pc \in {"closing", "respond"} => r \notin ActiveRuns

\* an exception in the loop body has ended a run and the flag is released
C7_Witness ==
  \E r \in Req :
    /\ run[r].pc = "closing" /\ run[r].abort = "upsert"
    /\ ~isUpdating

\* C8 as claimed: no failure while a record is processed aborts the loop, so
\* a run that enumerated records leaves its loop with a report.
C8_RecordFailureKeepsLoop ==
  \A r \in Req :
    (run[r].pc = "closing" /\ Len(run[r].animeList) > 0)
      => run[r].ret.kind = "report"

\* C9 as claimed: an updateOne that resolves for a key that is no longer in
\* the collection is counted as failed and not as updated.
C9_MissingKeyCountsFailed ==
  [][\A r \in Req :
       (/\ run[r].pc = "upsert" /\ run'[r].pc # "upsert"
        /\ run'[r].abort = "none"
        /\ run[r].animeList[run[r].i + 1] \notin store)
         => /\ run'[r].stats.failed = run[r].stats.failed + 1
            /\ run'[r].stats.updated = run[r].stats.updated]_vars

\* C10: when the loop body is entered for a record with no candidate title,
\* no search and no detail call is issued for it and it is counted as
\* notFound, not as failed or updated.
C10_NoTitleIsNotFound ==
  [][\A r \in Req :
       (run'[r].begun = run[r].begun + 1 /\ HasNoTitles(run'[r].anime))
         => /\ run'[r].pc \notin InRecord
            /\ run'[r].stats.notFound = run[r].stats.notFound + 1
            /\ run'[r].stats.failed = run[r].stats.failed
            /\ run'[r].stats.updated = run[r].stats.updated]_vars

\* a record with no title has been processed and the run waits before the next
C10_Witness ==
  \E r \in Req :
    /\ run[r].pc = "delay" /\ run[r].begun >= 1
    /\ HasNoTitles(run[r].anime)
    /\ run[r].stats.notFound >= 1

\* C11: a stop request made while no run is active does nothing to later
\* runs: an accepted start clears the flag, so a run that no stop request
\* reaches after its start runs with the flag clear, and a report it returns
\* covers every enumerated record with stopped = false.  Only an accepted
\* start clears the flag, and a stop request made while the flag is set
\* changes nothing (repeating it has no further effect).
C11_StaleStopIsCleared ==
  [][/\ \A r \in Req :
          /\ (run'[r].pc \in Active /\ run'[r].stopAt = NoStop) => ~shouldStop'
          /\ (run'[r].ret.kind = "report" /\ run'[r].stopAt = NoStop)
               => /\ ~run'[r].ret.stopped
                  /\ run'[r].begun = Len(run'[r].animeList)
                  /\ Sum(run'[r].ret.stats) = run'[r].ret.stats.total
     /\ (shouldStop /\ ~shouldStop')
          => \E r \in Req : run[r].pc = "idle" /\ run'[r].pc = "connect"
     /\ (shouldStop /\ shouldStop' /\ logStream' = logStream
           /\ (\A r \in Req : run'[r].pc = run[r].pc))
          => run' = run]_vars

\* a run started while a stop request from before it was pending, and it
\* has processed both of its records and reported stopped = false
C11_Witness ==
  \E r \in Req :
    /\ run[r].staleStop
    /\ run[r].ret.kind = "report" /\ ~run[r].ret.stopped
    /\ run[r].ret.stats.total = 2 /\ Sum(run[r].ret.stats) = 2

\* the title being searched and what equality after case normalization
\* means for a result
CurrentTitle(r) == SearchTitles(run[r].anime)[run[r].t]

ExactFor(result, title) ==
  ToLower(result.name) = ToLower(title) \/ ToLower(result.russian) = ToLower(title)

HasExact(results, title) ==
  \E k \in 1 .. Len(results) : ExactFor(results[k], title)

\* the titles searched for the record are the first t candidates, in order
SearchedFirstT(r) ==
  run[r].searched = SubSeq(SearchTitles(run[r].anime), 1, run[r].t)

\* C13: when the response to the search of the t-th candidate title has a
\* result whose name or russian name equals the title after lower-casing,
\* the resolved id is that of the first such result in the order returned,
\* and the titles searched for the record are the first t candidates only.
C13_ExactMatchFirstWins ==
  \A r \in Req :
    (/\ run[r].pc \in {"detail", "upsert"}
     /\ HasExact(run[r].resp.results, CurrentTitle(r)))
      => /\ \E k \in 1 .. Len(run[r].resp.results) :
              /\ ExactFor(run[r].resp.results[k], CurrentTitle(r))
              /\ \A j \in 1 .. (k - 1) :
                   ~ExactFor(run[r].resp.results[j], CurrentTitle(r))
              /\ run[r].animeId = run[r].resp.results[k].id
         /\ SearchedFirstT(r)
         /\ Len(run[r].searched) = Len(run[r].answers)

\* the second candidate title matched the second result of its response
\* through the russian name, a third candidate being left unsearched
C13_Witness ==
  \E r \in Req :
    /\ run[r].pc = "detail"
    /\ run[r].t = 2 /\ Len(SearchTitles(run[r].anime)) = 3
    /\ run[r].resp.results = <<ResultC, ResultB>>
    /\ run[r].animeId = 2
    /\ run[r].searched = <<"Aa", "Bb">>

\* C14: the first candidate title whose search returns a non-empty list
\* decides: when no result of that list equals the title, the id of the
\* first result is resolved and no later candidate is searched.
C14_BestGuessFirstNonEmpty ==
  \A r \in Req :
    (/\ run[r].pc \in {"detail", "upsert"}
     /\ ~HasExact(run[r].resp.results, CurrentTitle(r)))
      => /\ run[r].resp.results # <<>>
         /\ run[r].animeId = run[r].resp.results[1].id
         /\ SearchedFirstT(r)
         /\ \A k \in 1 .. (Len(run[r].answers) - 1) :
              run[r].answers[k] \in {"error", "nodata", "empty"}

\* the first title got a list with no match and its head was taken, though
\* the second title, never searched, equals a result of that list
C14_Witness ==
  \E r \in Req :
    /\ run[r].pc = "detail"
    /\ run[r].t = 1 /\ run[r].searched = <<"Aa">>
    /\ SearchTitles(run[r].anime) = <<"Aa", "Bb">>
    /\ run[r].resp.results = <<ResultC, ResultB>>
    /\ run[r].animeId = 3

\* every search of the record so far returned an empty list, resp. failed
AllAnswers(me, kind) ==
  /\ me.answers # <<>>
  /\ \A k \in 1 .. Len(me.answers) : me.answers[k] = kind

\* the step ends the work on a record of run r
RecordEnds(r) == run[r].pc \in InRecord /\ run'[r].pc \notin InRecord

\* the step adds one to stats[field] of run r and leaves the other counters
CountsAs(r, field) == run'[r].stats = Bump(run[r].stats, field)

\* C15: while every search of a record has returned an empty list, no
\* detail query is sent for it; when the record ends that way, each of its
\* candidate titles has been searched once, in order, and the record is
\* counted notFound.
C15_AllEmptyIsNotFound ==
  [][\A r \in Req :
       /\ AllAnswers(run'[r], "empty")
            => /\ run'[r].details = 0
               /\ run'[r].pc \notin {"detail", "upsert"}
       /\ (RecordEnds(r) /\ AllAnswers(run'[r], "empty"))
            => /\ run'[r].searched = SearchTitles(run'[r].anime)
               /\ Len(run'[r].answers) = Len(run'[r].searched)
               /\ CountsAs(r, "notFound")
               /\ run'[r].abort = "none"]_vars

\* three titles, three empty lists, the record counted notFound
C15_Witness ==
  \E r \in Req :
    /\ run[r].pc = "closing"
    /\ run[r].answers = <<"empty", "empty", "empty">>
    /\ run[r].searched = <<"Aa", "Bb", "aa">>
    /\ run[r].details = 0
    /\ run[r].ret.kind = "report" /\ run[r].ret.stats.notFound = 1

\* C16: a search that fails in transport is logged as an error and followed
\* by one title delay without any counter moving; after the delay the next
\* candidate title is searched, or, none being left, the record is counted
\* notFound and the run is not aborted.
C16_SearchFailureMovesOn ==
  [][\A r \in Req :
       /\ (run[r].pc = "search" /\ Len(run'[r].answers) = Len(run[r].answers) + 1
             /\ run'[r].answers[Len(run'[r].answers)] = "error")
            => /\ run'[r].pc = "titleDelay"
               /\ Len(logStream') = Len(logStream) + 1
               /\ logStream'[Len(logStream')].level = "error"
               /\ run'[r].stats = run[r].stats
               /\ run'[r].searched = run[r].searched
       /\ (run[r].pc = "titleDelay" /\ run[r].answers[Len(run[r].answers)] = "error")
            => IF run[r].t < Len(SearchTitles(run[r].anime))
               THEN /\ run'[r].pc = "search"
                    /\ run'[r].searched =
                         Append(run[r].searched,
                                SearchTitles(run[r].anime)[run[r].t + 1])
                    /\ run'[r].stats = run[r].stats
               ELSE /\ CountsAs(r, "notFound")
                    /\ run'[r].pc \notin InRecord
                    /\ run'[r].abort = "none"]_vars

\* both titles of a record failed in transport and the record is notFound
C16_Witness ==
  \E r \in Req :
    /\ run[r].pc = "closing"
    /\ run[r].answers = <<"error", "error">>
    /\ run[r].searched = <<"Aa", "Bb">>
    /\ run[r].ret.kind = "report"
    /\ run[r].ret.stats.notFound = 1 /\ run[r].ret.stats.failed = 0

\* C17: a record with a resolved id has had one detail query sent; when the
\* query yields no detail the record is counted failed, nothing is written,
\* no second query is sent, and the loop goes on to the delay before the
\* next record or to the end of the list.
C17_OneDetailQuery ==
  [][\A r \in Req :
       /\ run'[r].details \in {0, 1}
       /\ run'[r].pc \in {"detail", "upsert"} => run'[r].details = 1
       /\ (run[r].pc = "detail" /\ run'[r].pc \notin {"detail", "upsert"})
            => /\ CountsAs(r, "failed")
               /\ run'[r].details = 1
               /\ run'[r].calls = run[r].calls
               /\ store' = store
               /\ run'[r].abort = "none"
               /\ run'[r].pc = IF run[r].i < Len(run[r].animeList) - 1
                               THEN "delay" ELSE "closing"]_vars

\* the first of two records got no detail, was counted failed after one
\* query, and the run waits before the second record
C17_Witness ==
  \E r \in Req :
    /\ run[r].pc = "delay" /\ run[r].i = 0
    /\ run[r].animeId # 0 /\ run[r].details = 1
    /\ run[r].stats.failed = 1 /\ run[r].stats.updated = 0

\* the step sends a request of run r to the API
IssuesCall(r) == run'[r].calls = run[r].calls + 1

\* the step finishes a record of run r with one of the three outcomes;
\* begun is then the 1-based position of that record in the list
InterRecordWait(r) ==
  Sum(run'[r].stats) = Sum(run[r].stats) + 1
    => (run'[r].pc = "delay" <=> run'[r].begun < Len(run'[r].animeList))

\* C18 as stated: whenever a run sends a request to the API, a delay has
\* elapsed since its previous request, and the run waits after every
\* processed record but the last of the list.
C18_WaitBetweenCalls ==
  [][\A r \in Req :
       /\ IssuesCall(r) => run[r].lastCall = "none"
       /\ InterRecordWait(r)]_vars

\* C18 amended: a request is sent without a delay since the previous one in
\* two cases only, the detail query that follows the search which resolved
\* the id, and the search of the next title after a response without a
\* result list; a search that failed or returned an empty list is followed
\* by a title delay, and the run waits after every processed record but the
\* last of the list.
C18_WaitsWhereTheCodeWaits ==
  [][\A r \in Req :
       /\ (IssuesCall(r) /\ run[r].lastCall # "none")
            => /\ run[r].pc = "search"
               /\ Len(run'[r].answers) = Len(run[r].answers) + 1
               /\ \/ /\ run'[r].lastCall = "detail"
                     /\ run'[r].answers[Len(run'[r].answers)] \in {"exact", "guess"}
                  \/ /\ run'[r].lastCall = "search"
                     /\ run'[r].answers[Len(run'[r].answers)] = "nodata"
       /\ (Len(run'[r].answers) = Len(run[r].answers) + 1
             /\ run'[r].answers[Len(run'[r].answers)] \in {"error", "empty"})
            => run'[r].pc = "titleDelay" /\ ~IssuesCall(r)
       /\ (IssuesCall(r) /\ run[r].pc \in {"titleDelay", "delay"})
            => run[r].lastCall = "none"
       /\ InterRecordWait(r)]_vars

\* the second record is being searched after the first was searched,
\* fetched and updated: three requests, one wait
C18_Witness ==
  \E r \in Req :
    /\ run[r].pc = "search" /\ run[r].i = 1
    /\ run[r].calls = 3 /\ run[r].lastCall = "search"
    /\ run[r].stats.updated = 1

\* C12: in server.js at most one call of updateRatings is inside its loop
\* over the records at any time, whether the schedule or the route made it.
C12_OneServerJob ==
  Cardinality({s \in Jobs : srv[s].pc \in SrvInLoop}) <= 1

\* the step opens a log stream
NewStream == stream.st \in {"none", "closed"} /\ stream'.st = "open"

\* the step writes a snapshot to the log stream
Pushes == ~NewStream /\ stream'.tick # stream.tick

\* C19: a tick of an open log stream writes the log as it is then, and ends
\* the stream exactly when no run is in progress at that tick; the stream
\* ends in no other way than by such a tick, and an ended or closed stream
\* gets no further snapshot.
C19_StreamEndsWhenNotRunning ==
  [][/\ Pushes
          => /\ stream.st = "open"
             /\ stream'.last = logStream
             /\ stream'.st = IF isUpdating THEN "open" ELSE "ended"
     /\ (stream.st # "ended" /\ stream'.st = "ended")
          => Pushes /\ ~isUpdating
     /\ stream.st \in {"ended", "closed"} /\ stream'.st # "open"
          => ~Pushes /\ stream'.last = stream.last]_vars

\* a stream that wrote at least twice, ended with the whole log of a
\* finished run, and whose interval fired once more without writing
C19_Witness ==
  /\ stream.st = "ended" /\ stream.late /\ stream.tick = 0
  /\ ~isUpdating
  /\ stream.last = logStream
  /\ Len(stream.last) > 1
  /\ stream.last[Len(stream.last)].message = "Closing MongoDB connection"

\* the step is an accepted start
AcceptedStart == \E r \in Req : run[r].pc = "idle" /\ run'[r].pc = "connect"

\* C20: a step that is not an accepted start leaves the log a prefix of
\* what it becomes; an accepted start leaves in it the one entry it writes
\* itself; a call past its finally block writes nothing to it.
C20_LogAppendOnly ==
  [][/\ IF AcceptedStart
        THEN logStream' = <<[message |-> "Connecting to MongoDB", level |-> "info"]>>
        ELSE IsPrefix(logStream, logStream')
     /\ \A r \in Req :
          (run[r].pc \in {"closing", "respond"} /\ run'[r] # run[r])
            => logStream' = logStream]_vars

\* a start was accepted while the report of the run before it is still to
\* be sent, and the log holds the entry of the new run only
C20_Witness ==
  \E r, q \in Req :
    /\ run[r].pc = "connect"
    /\ run[q].pc \in {"closing", "respond"} /\ run[q].ret.kind = "report"
    /\ run[q].ret.stats.total = 2
    /\ Len(logStream) = 1

====
